---- MODULE Spec2Model ----
(***************************************************************************)
(* Verification model of the build configuration of react-webpack:        *)
(* webpack.config.js, evaluated once by Node when the webpack CLI is       *)
(* started from one of the package.json scripts.                           *)
(*                                                                         *)
(* JavaScript values are tagged tuples, so that `false`, a string and an   *)
(* object are three different values, as they are for ===.                 *)
(***************************************************************************)
EXTENDS Naturals, Sequences, FiniteSets

\* bound on the number of writes to process.env.NODE_ENV in one run
MaxEnvWrites == 2

----------------------------------------------------------------------------
(* JavaScript values *)

JsUndefined == <<"undefined">>

JsTrue == <<"boolean", "true">>

JsFalse == <<"boolean", "false">>

JsStr(s) == <<"string", s>>

JsObj(fields) == <<"object", fields>>

\* a === b, as a JavaScript boolean
StrictEquals(a, b) == IF a = b THEN JsTrue ELSE JsFalse

\* ToBoolean(v): the falsy values are undefined, false and ""
Truthy(v) == v \notin {JsUndefined, JsFalse, JsStr("")}

\* c ? a : b
Cond(c, a, b) == IF Truthy(c) THEN a ELSE b

\* the values process.env.NODE_ENV is given in a shell: unset, or a string
EnvValues ==
    {JsUndefined} \cup
    {JsStr(s) : s \in {"", "development", "prod", "Production", "test", "production"}}

\* the scripts of package.json and the --mode argument each passes to webpack
Scripts ==
    [start |-> [command |-> "webpack serve", mode |-> "development"],
     build |-> [command |-> "webpack", mode |-> "production"]]

----------------------------------------------------------------------------
(* Regular expressions: a text is the sequence of its characters, a        *)
(* pattern is the syntax tree of the regular expression, and Test is       *)
(* RegExp.prototype.test: a match may start anywhere in the text           *)

\* a literal character
Chr(c) == [t |-> "chr", c |-> c]

\* a character class [..]
Cls(set) == [t |-> "cls", set |-> set]

\* r1 r2 ... rn
Cat(parts) == [t |-> "cat", parts |-> parts]

\* (r1|r2|...|rn)
Alt(parts) == [t |-> "alt", parts |-> parts]

\* r?
Opt(r) == [t |-> "opt", of |-> r]

\* $
End == [t |-> "end"]

\* a run of literal characters
Lit(text) == Cat([i \in DOMAIN text |-> Chr(text[i])])

UpperToLower ==
    [A |-> "a", B |-> "b", C |-> "c", D |-> "d", E |-> "e", F |-> "f", G |-> "g",
     H |-> "h", I |-> "i", J |-> "j", K |-> "k", L |-> "l", M |-> "m", N |-> "n",
     O |-> "o", P |-> "p", Q |-> "q", R |-> "r", S |-> "s", T |-> "t", U |-> "u",
     V |-> "v", W |-> "w", X |-> "x", Y |-> "y", Z |-> "z"]

\* the canonical form of a character: itself, or its lower case under flag i
Fold(ignoreCase, c) ==
    IF ignoreCase /\ c \in DOMAIN UpperToLower THEN UpperToLower[c] ELSE c

RECURSIVE Ends(_, _, _, _)
RECURSIVE EndsOfParts(_, _, _, _, _)

\* the positions after a match of r that starts at position i of text
Ends(r, ignoreCase, text, i) ==
    CASE r.t = "chr" ->
           IF i <= Len(text) /\ Fold(ignoreCase, text[i]) = Fold(ignoreCase, r.c)
           THEN {i + 1} ELSE {}
      [] r.t = "cls" ->
           IF i <= Len(text)
              /\ \E c \in r.set : Fold(ignoreCase, text[i]) = Fold(ignoreCase, c)
           THEN {i + 1} ELSE {}
      [] r.t = "end" -> IF i = Len(text) + 1 THEN {i} ELSE {}
      [] r.t = "opt" -> {i} \cup Ends(r.of, ignoreCase, text, i)
      [] r.t = "alt" ->
           UNION {Ends(r.parts[k], ignoreCase, text, i) : k \in DOMAIN r.parts}
      [] r.t = "cat" -> EndsOfParts(r.parts, 1, ignoreCase, text, {i})

\* the positions after parts[k..] matched one after the other from a position of from
EndsOfParts(parts, k, ignoreCase, text, from) ==
    IF k > Len(parts)
    THEN from
    ELSE EndsOfParts(parts, k + 1, ignoreCase, text,
                     UNION {Ends(parts[k], ignoreCase, text, j) : j \in from})

\* regex.test(text)
Test(regex, text) ==
    \E i \in 1..(Len(text) + 1) :
        Ends(regex.pattern, regex.flags = "i", text, i) # {}

----------------------------------------------------------------------------
(* webpack.config.js: a filename template is the sequence of its literal   *)
(* parts and its [placeholders]                                            *)

\* const isProduction = process.env.NODE_ENV === "production";
MutIsProductionPrefix(env) ==
    IF env \in {JsStr("production"), JsStr("prod"), JsStr("Production")}
    THEN JsTrue ELSE JsFalse
MutIsProductionShortCircuit(env) ==
    IF Truthy(env) THEN StrictEquals(env, JsStr("production")) ELSE env
IsProduction(env) == StrictEquals(env, JsStr("production"))

MutOutputAlwaysBundle(isP) ==
    [path |-> <<"__dirname", "dist">>,
     filename |-> <<"js/", "[name]", ".bundle.js">>,
     assetModuleFilename |-> <<"assets/", "[hash]", "[ext]", "[query]">>,
     clean |-> JsTrue]
MutOutputCleanInProduction(isP) ==
    [path |-> <<"__dirname", "dist">>,
     filename |-> Cond(isP,
                       <<"js/", "[name]", ".", "[contenthash]", ".js">>,
                       <<"js/", "[name]", ".bundle.js">>),
     assetModuleFilename |-> <<"assets/", "[hash]", "[ext]", "[query]">>,
     clean |-> isP]
Output(isP) ==
    [path |-> <<"__dirname", "dist">>,
     filename |-> Cond(isP,
                       <<"js/", "[name]", ".", "[contenthash]", ".js">>,
                       <<"js/", "[name]", ".bundle.js">>),
     assetModuleFilename |-> <<"assets/", "[hash]", "[ext]", "[query]">>,
     clean |-> JsTrue]

Resolve == [extensions |-> <<".tsx", ".ts", ".js">>]

MutDevtoolEval(isP) == Cond(isP, JsFalse, JsStr("eval"))
MutDevtoolAlways(isP) == JsStr("source-map")
Devtool(isP) == Cond(isP, JsFalse, JsStr("source-map"))

MutDevServerNoFallback ==
    [static |-> <<"__dirname", "public">>,
     port |-> 3000,
     open |-> JsTrue,
     hot |-> JsTrue]
DevServer ==
    [static |-> <<"__dirname", "public">>,
     historyApiFallback |-> JsTrue,
     port |-> 3000,
     open |-> JsTrue,
     hot |-> JsTrue]

ScriptRule ==
    [test |-> [source |-> "\\.tsx?$", flags |-> "",
              pattern |-> Cat(<<Chr("."), Chr("t"), Chr("s"), Opt(Chr("x")), End>>)],
     use |-> <<"ts-loader">>,
     exclude |-> [source |-> "node_modules", flags |-> "",
                 pattern |-> Lit(<<"n", "o", "d", "e", "_", "m", "o", "d", "u", "l", "e", "s">>)]]

MutStyleRuleSwapped(isP) ==
    [test |-> [source |-> "\\.scss$", flags |-> "",
              pattern |-> Cat(<<Chr("."), Lit(<<"s", "c", "s", "s">>), End>>)],
     use |-> <<Cond(isP, "style-loader", "MiniCssExtractPlugin.loader"),
               "css-loader",
               "sass-loader">>]
MutStyleRulePostcss(isP) ==
    [test |-> [source |-> "\\.scss$", flags |-> "",
              pattern |-> Cat(<<Chr("."), Lit(<<"s", "c", "s", "s">>), End>>)],
     use |-> Cond(isP,
                  <<"MiniCssExtractPlugin.loader", "css-loader", "postcss-loader",
                    "sass-loader">>,
                  <<"style-loader", "css-loader", "sass-loader">>)]
StyleRule(isP) ==
    [test |-> [source |-> "\\.scss$", flags |-> "",
              pattern |-> Cat(<<Chr("."), Lit(<<"s", "c", "s", "s">>), End>>)],
     use |-> <<Cond(isP, "MiniCssExtractPlugin.loader", "style-loader"),
               "css-loader",
               "sass-loader">>]

MutImageRuleNoHash ==
    [test |-> [source |-> "\\.(png|jpe?g|gif|svg)$", flags |-> "i",
              pattern |->
                Cat(<<Chr("."),
                      Alt(<<Lit(<<"p", "n", "g">>),
                            Cat(<<Chr("j"), Chr("p"), Opt(Chr("e")), Chr("g")>>),
                            Lit(<<"g", "i", "f">>),
                            Lit(<<"s", "v", "g">>)>>),
                      End>>)],
     type |-> "asset/resource",
     generator |-> [filename |-> <<"images/", "[name]", "[ext]">>]]
ImageRule ==
    [test |-> [source |-> "\\.(png|jpe?g|gif|svg)$", flags |-> "i",
              pattern |->
                Cat(<<Chr("."),
                      Alt(<<Lit(<<"p", "n", "g">>),
                            Cat(<<Chr("j"), Chr("p"), Opt(Chr("e")), Chr("g")>>),
                            Lit(<<"g", "i", "f">>),
                            Lit(<<"s", "v", "g">>)>>),
                      End>>)],
     type |-> "asset/resource",
     generator |-> [filename |-> <<"images/", "[name]", ".", "[hash]", "[ext]">>]]

FontRule ==
    [test |-> [source |-> "\\.(woff|woff2|eot|ttf|otf)$", flags |-> "i",
              pattern |->
                Cat(<<Chr("."),
                      Alt(<<Lit(<<"w", "o", "f", "f">>),
                            Lit(<<"w", "o", "f", "f", "2">>),
                            Lit(<<"e", "o", "t">>),
                            Lit(<<"t", "t", "f">>),
                            Lit(<<"o", "t", "f">>)>>),
                      End>>)],
     type |-> "asset/resource",
     generator |-> [filename |-> <<"fonts/", "[name]", ".", "[hash]", "[ext]">>]]

MutRulesProductionOrder(isP) ==
    Cond(isP,
         <<ScriptRule, StyleRule(isP), FontRule, ImageRule>>,
         <<ScriptRule, StyleRule(isP), ImageRule, FontRule>>)
Rules(isP) == <<ScriptRule, StyleRule(isP), ImageRule, FontRule>>

TerserPlugin == [plugin |-> "TerserPlugin", options |-> [extractComments |-> JsFalse]]

CssMinimizerPlugin == [plugin |-> "CssMinimizerPlugin", options |-> JsUndefined]

MutOptimizationConditionalChain(isP) ==
    [minimize |-> isP,
     minimizer |-> Cond(isP, <<TerserPlugin, CssMinimizerPlugin>>, <<>>),
     splitChunks |-> [chunks |-> "all"]]
MutOptimizationAlwaysMinimize(isP) ==
    [minimize |-> JsTrue,
     minimizer |-> <<TerserPlugin, CssMinimizerPlugin>>,
     splitChunks |-> [chunks |-> "all"]]
MutOptimizationSplitInProduction(isP) ==
    [minimize |-> isP,
     minimizer |-> <<TerserPlugin, CssMinimizerPlugin>>,
     splitChunks |-> [chunks |-> Cond(isP, "all", "async")]]
Optimization(isP) ==
    [minimize |-> isP,
     minimizer |-> <<TerserPlugin, CssMinimizerPlugin>>,
     splitChunks |-> [chunks |-> "all"]]

HtmlWebpackPlugin(isP) ==
    [plugin |-> "HtmlWebpackPlugin",
     options |->
        [template |-> "./public/index.html",
         minify |-> Cond(isP,
                         JsObj([removeComments |-> JsTrue,
                                collapseWhitespace |-> JsTrue,
                                removeRedundantAttributes |-> JsTrue]),
                         JsFalse)]]

MiniCssExtractPlugin ==
    [plugin |-> "MiniCssExtractPlugin",
     options |-> [filename |-> <<"css/", "[name]", ".", "[contenthash]", ".css">>]]

MutPluginsAlwaysExtract(isP) == <<HtmlWebpackPlugin(isP), MiniCssExtractPlugin>>
MutPluginsNeverExtract(isP) == <<HtmlWebpackPlugin(isP)>>
Plugins(isP) ==
    <<HtmlWebpackPlugin(isP)>> \o Cond(isP, <<MiniCssExtractPlugin>>, <<>>)

Mode(isP) == Cond(isP, "production", "development")

\* module.exports = { ... }
Config(isP) ==
    [entry |-> "./src/index.tsx",
     output |-> Output(isP),
     resolve |-> Resolve,
     devtool |-> Devtool(isP),
     devServer |-> DevServer,
     module |-> [rules |-> Rules(isP)],
     optimization |-> Optimization(isP),
     plugins |-> Plugins(isP),
     mode |-> Mode(isP)]

----------------------------------------------------------------------------
(* The documented stylesheet rule, the App component and its test *)

\* the test of the rule that README step 12a adds: /\.s[ac]ss$/i
DocumentedStyleTest ==
    [source |-> "\\.s[ac]ss$", flags |-> "i",
     pattern |-> Cat(<<Chr("."), Chr("s"), Cls({"a", "c"}), Chr("s"), Chr("s"), End>>)]

\* a rendered element: its tag, its attributes and the text of its own text nodes
Element(tag, attrs, text, children) ==
    [tag |-> tag, attrs |-> attrs, text |-> text, children |-> children]

MutAppHello ==
    Element("h1", [id |-> ""],
            <<"H", "e", "l", "l", "o", ",", " ", "R", "e", "a", "c", "t", " ", "+", " ",
              "T", "y", "p", "e", "S", "c", "r", "i", "p", "t", " ", "+", " ",
              "W", "e", "b", "p", "a", "c", "k", "!">>,
            <<>>)
\* const App: React.FC = () => <div> <a><img/></a> <a><img/></a> <h1>..</h1> </div>
App ==
    Element("div", [id |-> ""], <<>>,
      <<Element("a", [href |-> "https://webpack.js.org/guides/typescript/"], <<>>,
          <<Element("img",
                    [className |-> "logo",
                     alt |-> <<"w", "e", "b", "p", "a", "c", "k", " ", "l", "o", "g", "o">>],
                    <<>>, <<>>)>>),
        Element("a", [href |-> "https://react.dev"], <<>>,
          <<Element("img",
                    [className |-> "logo react",
                     alt |-> <<"R", "e", "a", "c", "t", " ", "l", "o", "g", "o">>],
                    <<>>, <<>>)>>),
        Element("h1", [id |-> ""],
                <<"W", "e", "b", "p", "a", "c", "k", " ", "+", " ",
                  "R", "e", "a", "c", "t", " ", "A", "p", "p">>,
                <<>>)>>)

RECURSIVE Flatten(_)
RECURSIVE FlattenAll(_)

\* the elements of a tree, in document order
Flatten(el) ==
    <<[tag |-> el.tag, attrs |-> el.attrs, text |-> el.text]>> \o FlattenAll(el.children)

FlattenAll(els) ==
    IF els = <<>> THEN <<>> ELSE Flatten(Head(els)) \o FlattenAll(Tail(els))

\* render(<App />): the component in a container div of document.body
Render(component) ==
    Flatten(Element("body", [id |-> ""], <<>>,
              <<Element("div", [id |-> ""], <<>>, <<component>>)>>))

\* /webpack \+ react/i
HeadingPattern ==
    [source |-> "webpack \\+ react", flags |-> "i",
     pattern |-> Lit(<<"w", "e", "b", "p", "a", "c", "k", " ", "+", " ", "r", "e", "a", "c", "t">>)]

\* the elements a text query finds: those whose own text matches
GetAllByText(document, regex) ==
    {i \in DOMAIN document : Test(regex, document[i].text)}

----------------------------------------------------------------------------
(* One run of a package.json script *)

\* bound on the number of finished webpack runs that are remembered
MaxRuns == 1

\* the module files the bundler is asked to resolve:
\*   App.tsx
\*   a.ts
\*   a.js
\*   a.scss
\*   a.sass
\*   A.SCSS
\*   a.scss.map
\*   a.png
\*   a.JPEG
\*   a.svg
\*   a.woff2
\*   node_modules/a.ts
FileNames ==
    {<<"A", "p", "p", ".", "t", "s", "x">>,
     <<"a", ".", "t", "s">>,
     <<"a", ".", "j", "s">>,
     <<"a", ".", "s", "c", "s", "s">>,
     <<"a", ".", "s", "a", "s", "s">>,
     <<"A", ".", "S", "C", "S", "S">>,
     <<"a", ".", "s", "c", "s", "s", ".", "m", "a", "p">>,
     <<"a", ".", "p", "n", "g">>,
     <<"a", ".", "J", "P", "E", "G">>,
     <<"a", ".", "s", "v", "g">>,
     <<"a", ".", "w", "o", "f", "f", "2">>,
     <<"n", "o", "d", "e", "_", "m", "o", "d", "u", "l", "e", "s", "/", "a", ".", "t", "s">>}

VARIABLES
    NODE_ENV,      \* process.env.NODE_ENV, now
    script,        \* the package.json script that was run, "" before any
    pc,            \* "shell", "cli" (webpack started), "loaded" (config required)
    isProduction,  \* the module constant of webpack.config.js
    exports,       \* module.exports of webpack.config.js
    envAtLoad,     \* the value line 7 read from process.env.NODE_ENV
    envWrites,     \* number of writes to process.env.NODE_ENV in this run
    history,       \* isProduction and module.exports of the finished runs
    request,       \* the file the bundler last matched against module.rules
    matched,       \* the indices of the rules that apply to request
    screen         \* the document of the App test, <<>> before render

vars ==
    <<NODE_ENV, script, pc, isProduction, exports, envAtLoad, envWrites,
      history, request, matched, screen>>

\* module.exports before the module body has run: {}
EmptyExports == <<>>

NoRequest == <<>>

NotRendered == <<>>

Init ==
    /\ NODE_ENV \in EnvValues
    /\ script = ""
    /\ pc = "shell"
    /\ isProduction = JsUndefined
    /\ exports = EmptyExports
    /\ envAtLoad = JsUndefined
    /\ envWrites = 0
    /\ history = <<>>
    /\ request = NoRequest
    /\ matched = {}
    /\ screen = NotRendered

\* process.env.NODE_ENV = v (export NODE_ENV=v, or unset, in the shell; an
\* assignment in the process once it runs); the module is not evaluated again
MutSetEnvReevaluates(v) ==
    /\ envWrites < MaxEnvWrites
    /\ v # NODE_ENV
    /\ NODE_ENV' = v
    /\ envWrites' = envWrites + 1
    /\ IF pc = "loaded"
       THEN /\ isProduction' = IsProduction(v)
            /\ exports' = Config(IsProduction(v))
       ELSE UNCHANGED <<isProduction, exports>>
    /\ UNCHANGED <<script, pc, envAtLoad, history, request, matched, screen>>
SetEnv(v) ==
    /\ envWrites < MaxEnvWrites
    /\ v # NODE_ENV
    /\ NODE_ENV' = v
    /\ envWrites' = envWrites + 1
    /\ UNCHANGED <<script, pc, isProduction, exports, envAtLoad,
                   history, request, matched, screen>>

\* npm run start | npm run build: starts webpack with --mode; the environment
\* is passed on as it is
RunScript(s) ==
    /\ pc = "shell"
    /\ script' = s
    /\ pc' = "cli"
    /\ UNCHANGED <<NODE_ENV, isProduction, exports, envAtLoad, envWrites,
                   history, request, matched, screen>>

\* require("./webpack.config.js"): the module body runs, once
MutLoadConfigModeFromEnv ==
    /\ pc = "cli"
    /\ envAtLoad' = NODE_ENV
    /\ isProduction' = IsProduction(NODE_ENV)
    /\ exports' = [Config(IsProduction(NODE_ENV)) EXCEPT
                     !.mode = IF NODE_ENV \in {JsUndefined, JsStr("")}
                              THEN "development" ELSE NODE_ENV[2]]
    /\ pc' = "loaded"
    /\ UNCHANGED <<NODE_ENV, script, envWrites, history, request, matched, screen>>
LoadConfig ==
    /\ pc = "cli"
    /\ envAtLoad' = NODE_ENV
    /\ isProduction' = IsProduction(NODE_ENV)
    /\ exports' = Config(IsProduction(NODE_ENV))
    /\ pc' = "loaded"
    /\ UNCHANGED <<NODE_ENV, script, envWrites, history, request, matched, screen>>

\* the rules of module.rules that apply to a file: test matches, exclude does not
MatchingRules(rules, file) ==
    {i \in DOMAIN rules :
        /\ Test(rules[i].test, file)
        /\ ~("exclude" \in DOMAIN rules[i] /\ Test(rules[i].exclude, file))}

\* the bundler routes a module file through module.rules (one file is followed
\* in each run)
ResolveModule(file) ==
    /\ pc = "loaded"
    /\ request = NoRequest
    /\ request' = file
    /\ matched' = MatchingRules(exports.module.rules, file)
    /\ UNCHANGED <<NODE_ENV, script, pc, isProduction, exports, envAtLoad,
                   envWrites, history, screen>>

\* render(<App />) in the App component's test
RenderApp ==
    /\ screen = NotRendered
    /\ screen' = Render(App)
    /\ UNCHANGED <<NODE_ENV, script, pc, isProduction, exports, envAtLoad,
                   envWrites, history, request, matched>>

\* the webpack process ends; the next script starts a new process, in which
\* webpack.config.js is evaluated again, from the environment of its shell
Exit ==
    /\ pc = "loaded"
    /\ Len(history) < MaxRuns
    /\ history' = Append(history, [isProduction |-> isProduction, exports |-> exports])
    /\ pc' = "shell"
    /\ script' = ""
    /\ isProduction' = JsUndefined
    /\ exports' = EmptyExports
    /\ envAtLoad' = JsUndefined
    /\ envWrites' = 0
    /\ request' = NoRequest
    /\ matched' = {}
    /\ NODE_ENV' \in EnvValues
    /\ UNCHANGED screen

Next ==
    \/ \E v \in EnvValues : SetEnv(v)
    \/ \E s \in DOMAIN Scripts : RunScript(s)
    \/ LoadConfig
    \/ \E f \in FileNames : ResolveModule(f)
    \/ RenderApp

Spec == Init /\ [][Next]_vars

\* several runs, one after the other
NextRuns ==
    \/ Next
    \/ Exit

SpecRuns == Init /\ [][NextRuns]_vars

----------------------------------------------------------------------------
(* Reading a resolved configuration *)

Loaded == pc = "loaded"

Production == isProduction = JsTrue

Development == isProduction = JsFalse

\* the placeholders webpack replaces by a hash of the content
FingerprintPlaceholders == {"[contenthash]", "[chunkhash]", "[fullhash]", "[hash]"}

HasPlaceholder(template, p) == \E i \in DOMAIN template : template[i] = p

PluginNames(list) == [i \in DOMAIN list |-> list[i].plugin]

HasPlugin(list, name) == \E i \in DOMAIN list : list[i].plugin = name

\* the minimizers webpack runs: those of the chain, when minimize is on
MinimizationPasses(cfg) ==
    IF Truthy(cfg.optimization.minimize)
    THEN PluginNames(cfg.optimization.minimizer)
    ELSE <<>>

StyleLoader(cfg) == cfg.module.rules[2].use[1]

HtmlMinify(cfg) == cfg.plugins[1].options.minify

\* every mode-dependent field has its production value
AllProduction(cfg) ==
    /\ cfg.output.filename = <<"js/", "[name]", ".", "[contenthash]", ".js">>
    /\ cfg.devtool = JsFalse
    /\ StyleLoader(cfg) = "MiniCssExtractPlugin.loader"
    /\ cfg.optimization.minimize = JsTrue
    /\ HtmlMinify(cfg) \notin {JsFalse, JsUndefined}
    /\ HasPlugin(cfg.plugins, "MiniCssExtractPlugin")
    /\ cfg.mode = "production"

\* every mode-dependent field has its development value
AllDevelopment(cfg) ==
    /\ cfg.output.filename = <<"js/", "[name]", ".bundle.js">>
    /\ cfg.devtool = JsStr("source-map")
    /\ StyleLoader(cfg) = "style-loader"
    /\ cfg.optimization.minimize = JsFalse
    /\ HtmlMinify(cfg) = JsFalse
    /\ ~HasPlugin(cfg.plugins, "MiniCssExtractPlugin")
    /\ cfg.mode = "development"

\* the policies the spec names for a production build
ProductionPolicies(cfg) ==
    /\ HasPlaceholder(cfg.output.filename, "[contenthash]")
    /\ cfg.optimization.minimize = JsTrue
    /\ HasPlugin(cfg.plugins, "MiniCssExtractPlugin")
    /\ cfg.devtool = JsFalse

\* the policies the spec names for a development build
DevelopmentPolicies(cfg) ==
    /\ \A p \in FingerprintPlaceholders : ~HasPlaceholder(cfg.output.filename, p)
    /\ cfg.optimization.minimize = JsFalse
    /\ ~HasPlugin(cfg.plugins, "MiniCssExtractPlugin")
    /\ cfg.devtool = JsStr("source-map")

----------------------------------------------------------------------------
(* Claims *)

\* C1: the plugin list is <<markup-template plugin, stylesheet-extraction
\* plugin>> in production and <<markup-template plugin>> in development; the
\* extraction plugin is in the list if and only if BuildMode is production.
C1_PluginList ==
    Loaded =>
        /\ Production \/ Development
        /\ Production =>
             PluginNames(exports.plugins) = <<"HtmlWebpackPlugin", "MiniCssExtractPlugin">>
        /\ Development => PluginNames(exports.plugins) = <<"HtmlWebpackPlugin">>
        /\ HasPlugin(exports.plugins, "MiniCssExtractPlugin") <=> Production

C1_Witness ==
    /\ Loaded
    /\ Production
    /\ Len(exports.plugins) = 2
    /\ exports.plugins[2] = MiniCssExtractPlugin

\* C2 as stated: the minimizer chain is populated if and only if minimize is
\* true: two entries and minimize = true in production, an empty chain and
\* minimize = false in development.
C2_ChainIffMinimize ==
    Loaded =>
        /\ Len(exports.optimization.minimizer) > 0
             <=> exports.optimization.minimize = JsTrue
        /\ Production =>
             /\ PluginNames(exports.optimization.minimizer)
                  = <<"TerserPlugin", "CssMinimizerPlugin">>
             /\ exports.optimization.minimize = JsTrue
        /\ Development =>
             /\ exports.optimization.minimizer = <<>>
             /\ exports.optimization.minimize = JsFalse

\* C2 amended: the minimizer chain has exactly two entries (script minimizer,
\* then stylesheet minimizer) in both BuildModes; minimize is true in
\* production and false in development, where the chain is populated but
\* switched off.
C2_ChainAlwaysPopulated ==
    Loaded =>
        /\ PluginNames(exports.optimization.minimizer)
             = <<"TerserPlugin", "CssMinimizerPlugin">>
        /\ Production => exports.optimization.minimize = JsTrue
        /\ Development => exports.optimization.minimize = JsFalse
        /\ Production \/ Development

C2_Witness ==
    /\ Loaded
    /\ Development
    /\ exports.optimization.minimize = JsFalse
    /\ Len(exports.optimization.minimizer) = 2

\* C3: the output filename template contains [contenthash] if and only if
\* BuildMode is production; in development it is js/[name].bundle.js, with no
\* fingerprint placeholder.
C3_Fingerprint ==
    Loaded =>
        /\ HasPlaceholder(exports.output.filename, "[contenthash]") <=> Production
        /\ Development =>
             /\ exports.output.filename = <<"js/", "[name]", ".bundle.js">>
             /\ \A p \in FingerprintPlaceholders :
                    ~HasPlaceholder(exports.output.filename, p)

C3_Witness ==
    /\ Loaded
    /\ Development
    /\ exports.output.filename = <<"js/", "[name]", ".bundle.js">>

\* C4: optimization.minimize is true, and the script and the stylesheet
\* minification passes both run, if and only if BuildMode is production; in
\* development minimize is false and no minification pass runs.
C4_Minimize ==
    Loaded =>
        /\ exports.optimization.minimize = JsTrue <=> Production
        /\ Production =>
             MinimizationPasses(exports) = <<"TerserPlugin", "CssMinimizerPlugin">>
        /\ ~Production =>
             /\ exports.optimization.minimize = JsFalse
             /\ MinimizationPasses(exports) = <<>>

C4_Witness ==
    /\ Loaded
    /\ Production
    /\ exports.optimization.minimize = JsTrue
    /\ Len(MinimizationPasses(exports)) = 2

\* C5: devtool is false in production and "source-map" in development, and
\* never anything else.
C5_Devtool ==
    Loaded =>
        /\ Production => exports.devtool = JsFalse
        /\ Development => exports.devtool = JsStr("source-map")
        /\ exports.devtool \in {JsFalse, JsStr("source-map")}
        /\ exports.devtool = JsFalse => Production

C5_Witness ==
    /\ Loaded
    /\ Development
    /\ exports.devtool = JsStr("source-map")

\* C6: the first transform of the stylesheet rule is the extraction loader in
\* production and style-loader in development.
C6_StyleLoader ==
    Loaded =>
        /\ exports.module.rules[2].test.source = "\\.scss$"
        /\ Production => exports.module.rules[2].use[1] = "MiniCssExtractPlugin.loader"
        /\ Development => exports.module.rules[2].use[1] = "style-loader"
        /\ Production \/ Development

C6_Witness ==
    /\ Loaded
    /\ Production
    /\ exports.module.rules[2].use[1] = "MiniCssExtractPlugin.loader"

\* C7: in every resolved configuration the mode-dependent fields (output
\* filename, devtool, first stylesheet loader, minimize, HTML minify,
\* extraction plugin, mode) all have their production values or all have
\* their development values, in agreement with the one BuildMode.
C7_Consistent ==
    Loaded =>
        /\ Production => AllProduction(exports)
        /\ Development => AllDevelopment(exports)
        /\ Production # Development
        /\ AllProduction(exports) # AllDevelopment(exports)

C7_Witness ==
    /\ Loaded
    /\ AllProduction(exports)
    /\ ~AllDevelopment(exports)
    /\ script = "start"

\* C8: BuildMode is production if and only if NODE_ENV is exactly
\* "production" when the configuration is loaded; unset and every other
\* string give the development configuration, and `mode` says which.
C8_ExactMatch ==
    Loaded =>
        IF envAtLoad = JsStr("production")
        THEN /\ Production
             /\ exports.mode = "production"
        ELSE /\ Development
             /\ exports.mode = "development"
             /\ AllDevelopment(exports)

C8_Witness ==
    /\ Loaded
    /\ envAtLoad = JsStr("Production")
    /\ Development
    /\ exports.mode = "development"

\* C9: the script selects the BuildMode: after "build" (webpack --mode
\* production) the configuration has the production policies, after "start"
\* (webpack serve --mode development) the development policies.
C9_ScriptSelectsMode ==
    Loaded =>
        /\ Scripts[script].mode = "production" => ProductionPolicies(exports)
        /\ Scripts[script].mode = "development" => DevelopmentPolicies(exports)

\* C10: once the configuration is loaded, no step (a change of NODE_ENV
\* included) changes BuildMode or any field of the configuration.
C10_Immutable ==
    [][Loaded => (isProduction' = isProduction /\ exports' = exports /\ Loaded')]_vars

C10_Witness ==
    /\ Loaded
    /\ Development
    /\ NODE_ENV = JsStr("production")
    /\ envAtLoad # NODE_ENV
    /\ exports.mode = "development"

----------------------------------------------------------------------------
(* Claims about several derivations, the rule catalogue and the App test *)

\* the derivations so far: those of the finished runs, then this run's
Derivations ==
    history \o (IF Loaded
                THEN <<[isProduction |-> isProduction, exports |-> exports]>>
                ELSE <<>>)

ConfigFields ==
    {"entry", "output", "resolve", "devtool", "devServer", "module",
     "optimization", "plugins", "mode"}

\* a configuration with its mode-dependent fields blanked: output.filename,
\* devtool, the first stylesheet loader, optimization.minimize, the HTML
\* plugin's minify, the extraction plugin and mode
Masked(cfg) ==
    LET others == SelectSeq(cfg.plugins, LAMBDA p : p.plugin # "MiniCssExtractPlugin")
    IN  [cfg EXCEPT
           !.output.filename = "*",
           !.devtool = "*",
           !.module.rules[2].use[1] = "*",
           !.optimization.minimize = "*",
           !.plugins = [i \in DOMAIN others |->
                          IF "minify" \in DOMAIN others[i].options
                          THEN [others[i] EXCEPT !.options.minify = "*"]
                          ELSE others[i]],
           !.mode = "*"]

\* C11: two derivations from the same BuildMode yield the same configuration,
\* whatever the environment, the script and the history of earlier runs.
C11_Idempotent ==
    \A i, j \in DOMAIN Derivations :
        Derivations[i].isProduction = Derivations[j].isProduction
            => Derivations[i].exports = Derivations[j].exports

C11_Witness ==
    /\ Loaded
    /\ Len(history) = 1
    /\ history[1].isProduction = JsFalse
    /\ Development
    /\ envAtLoad = JsStr("test")
    /\ history[1].exports = exports

\* C12: optimization.splitChunks.chunks is "all" in production and in
\* development alike.
C12_SplitChunks ==
    Loaded => exports.optimization.splitChunks = [chunks |-> "all"]

C12_Witness ==
    /\ Loaded
    /\ Development
    /\ exports.optimization.splitChunks.chunks = "all"

\* C13: in both BuildModes module.rules has exactly four rules, in the same
\* order and with the same patterns, one per asset class: a TypeScript file, a
\* stylesheet, an image and a font are each routed to exactly their own rule.
C13_RuleCatalogue ==
    Loaded =>
        /\ Len(exports.module.rules) = 4
        /\ [i \in 1..4 |-> exports.module.rules[i].test]
             = <<ScriptRule.test, StyleRule(JsFalse).test, ImageRule.test, FontRule.test>>
        /\ [i \in 1..4 |-> exports.module.rules[i].test.source]
             = <<"\\.tsx?$", "\\.scss$", "\\.(png|jpe?g|gif|svg)$",
                 "\\.(woff|woff2|eot|ttf|otf)$">>
        /\ request = <<"A", "p", "p", ".", "t", "s", "x">> => matched = {1}
        /\ request = <<"a", ".", "s", "c", "s", "s">> => matched = {2}
        /\ request = <<"a", ".", "p", "n", "g">> => matched = {3}
        /\ request = <<"a", ".", "w", "o", "f", "f", "2">> => matched = {4}

C13_Witness ==
    /\ Loaded
    /\ Production
    /\ Len(exports.module.rules) = 4
    /\ request = <<"a", ".", "w", "o", "f", "f", "2">>
    /\ matched = {4}

\* C14: in both BuildModes devServer has the same root directory, port 3000,
\* open and hot on, and historyApiFallback true.
C14_DevServer ==
    Loaded =>
        /\ DOMAIN exports.devServer = {"static", "historyApiFallback", "port", "open", "hot"}
        /\ exports.devServer.static = <<"__dirname", "public">>
        /\ exports.devServer.port = 3000
        /\ exports.devServer.open = JsTrue
        /\ exports.devServer.hot = JsTrue
        /\ exports.devServer.historyApiFallback = JsTrue

C14_Witness ==
    /\ Loaded
    /\ Production
    /\ exports.devServer.historyApiFallback = JsTrue
    /\ exports.devServer.port = 3000

\* C15: for every value of NODE_ENV, unset and unrecognised strings included,
\* loading the configuration can always be done, and it ends with a boolean
\* BuildMode and a complete configuration of one of the two modes.
C15_NoError ==
    /\ pc \in {"shell", "cli", "loaded"}
    /\ pc = "cli" => ENABLED LoadConfig
    /\ Loaded =>
         /\ isProduction \in {JsTrue, JsFalse}
         /\ DOMAIN exports = ConfigFields
         /\ AllProduction(exports) \/ AllDevelopment(exports)

C15_Witness ==
    /\ Loaded
    /\ envAtLoad = JsUndefined
    /\ isProduction = JsFalse
    /\ DOMAIN exports = ConfigFields

\* C16: in the rendered App exactly one element has text matching
\* /webpack \+ react/i, the h1 heading; the logo images are not among the
\* matches.
C16_OneHeading ==
    screen # NotRendered =>
        LET found == GetAllByText(screen, HeadingPattern)
        IN  /\ Cardinality(found) = 1
            /\ \A i \in found : screen[i].tag = "h1"
            /\ \A i \in DOMAIN screen : screen[i].tag = "img" => i \notin found

C16_Witness ==
    /\ screen # NotRendered
    /\ \E i \in DOMAIN screen :
          /\ screen[i].tag = "h1"
          /\ i \in GetAllByText(screen, HeadingPattern)
    /\ \E i \in DOMAIN screen : screen[i].tag = "img"

\* C17: the stylesheet rule applies to a file if and only if its name ends in
\* .scss or .sass, in any case, as /\.s[ac]ss$/i says.
C17_DocumentedPattern ==
    (Loaded /\ request # NoRequest) =>
        (2 \in matched <=> Test(DocumentedStyleTest, request))

\* C18: the stylesheet rule uses the extraction loader if and only if the
\* extraction plugin is in the plugin list.
C18_LoaderIffPlugin ==
    Loaded =>
        ("MiniCssExtractPlugin.loader" \in
            {exports.module.rules[2].use[k] : k \in DOMAIN exports.module.rules[2].use})
        <=> HasPlugin(exports.plugins, "MiniCssExtractPlugin")

C18_Witness ==
    /\ Loaded
    /\ HasPlugin(exports.plugins, "MiniCssExtractPlugin")
    /\ exports.module.rules[2].use[1] = "MiniCssExtractPlugin.loader"
    /\ request = <<"a", ".", "s", "c", "s", "s">>

\* C19: any two resolved configurations are identical outside output.filename,
\* devtool, the first stylesheet loader, optimization.minimize, the HTML
\* plugin's minify, the presence of the extraction plugin and mode.
C19_Frame ==
    \A i, j \in DOMAIN Derivations :
        Masked(Derivations[i].exports) = Masked(Derivations[j].exports)

C19_Witness ==
    /\ Loaded
    /\ Len(history) = 1
    /\ history[1].isProduction = JsTrue
    /\ Development
    /\ history[1].exports # exports
    /\ Masked(history[1].exports) = Masked(exports)

\* C20: the stylesheet rule's chain always has three entries: the extraction
\* or injection loader, then css-loader, then sass-loader.
C20_Chain ==
    Loaded =>
        LET use == exports.module.rules[2].use
        IN  /\ Len(use) = 3
            /\ use[1] \in {"MiniCssExtractPlugin.loader", "style-loader"}
            /\ use[2] = "css-loader"
            /\ use[3] = "sass-loader"

C20_Witness ==
    /\ Loaded
    /\ Production
    /\ exports.module.rules[2].use
         = <<"MiniCssExtractPlugin.loader", "css-loader", "sass-loader">>

\* C21: assetModuleFilename and the generator filenames of the image rule and
\* of the font rule contain a hash placeholder in both BuildModes; in
\* development the script bundle name alone is free of any fingerprint.
C21_AssetHash ==
    Loaded =>
        /\ HasPlaceholder(exports.output.assetModuleFilename, "[hash]")
        /\ HasPlaceholder(exports.module.rules[3].generator.filename, "[hash]")
        /\ HasPlaceholder(exports.module.rules[4].generator.filename, "[hash]")
        /\ exports.module.rules[3].test.source = "\\.(png|jpe?g|gif|svg)$"
        /\ exports.module.rules[4].test.source = "\\.(woff|woff2|eot|ttf|otf)$"
        /\ Development =>
             \A p \in FingerprintPlaceholders :
                 ~HasPlaceholder(exports.output.filename, p)

C21_Witness ==
    /\ Loaded
    /\ Development
    /\ HasPlaceholder(exports.module.rules[3].generator.filename, "[hash]")
    /\ HasPlaceholder(exports.module.rules[4].generator.filename, "[hash]")
    /\ HasPlaceholder(exports.output.assetModuleFilename, "[hash]")
    /\ ~HasPlaceholder(exports.output.filename, "[contenthash]")

====
